---- MODULE Spec2Model ----
(***************************************************************************)
(* pysolarcloud: the realtime-data pipeline of Plants                      *)
(* (src/src/pysolarcloud/plants.py) and the capability check of Control    *)
(* (src/src/pysolarcloud/control.py).                                      *)
(*                                                                         *)
(* Python strings are sequences of one-character strings, so that          *)
(* str.isdigit, the slice k[1:], the test k[0]=='p' and float() act on     *)
(* the characters.  A Python dict is a function whose DOMAIN is its key    *)
(* set; a dict built from a list of pairs keeps the last pair of a key.    *)
(* Values whose Python type varies are tagged records:                     *)
(*   None, PyStr(s), PyInt(n), PyFloat(m, e) = m * 10^e, Special(w).           *)
(***************************************************************************)
EXTENDS Integers, Sequences, FiniteSets, TLC

VARIABLES op, pc, args, payload, requests, response, outcome

vars == <<op, pc, args, payload, requests, response, outcome>>

(* ------------------------------ bounds --------------------------------- *)

\* longest measure_points list a caller passes
MaxPoints == 2
\* longest plant_id list a caller passes
MaxPlantIds == 2
\* longest device_point_list in a response
MaxRecords == 2
\* longest raw point value enumerated exhaustively over RawAlphabet
MaxLen == 3
\* longest dev_result_list in a capability-check response
MaxDevices == 2

(* --------------------------- Python values ----------------------------- *)

None == [t |-> "None"]

PyStr(s) == [t |-> "str", v |-> s]

PyInt(n) == [t |-> "int", v |-> n]

Special(w) == [t |-> "float", special |-> w]

Digits == {"0", "1", "2", "3", "4", "5", "6", "7", "8", "9"}

\* str.isdigit(): non-empty and every character a digit
isdigit(s) == Len(s) > 0 /\ \A i \in 1..Len(s) : s[i] \in Digits

DigitVal(c) ==
  CASE c = "0" -> 0 [] c = "1" -> 1 [] c = "2" -> 2 [] c = "3" -> 3 [] c = "4" -> 4
    [] c = "5" -> 5 [] c = "6" -> 6 [] c = "7" -> 7 [] c = "8" -> 8 [] c = "9" -> 9

DigitChar(d) ==
  CASE d = 0 -> "0" [] d = 1 -> "1" [] d = 2 -> "2" [] d = 3 -> "3" [] d = 4 -> "4"
    [] d = 5 -> "5" [] d = 6 -> "6" [] d = 7 -> "7" [] d = 8 -> "8" [] d = 9 -> "9"

RECURSIVE NatToStr(_)
NatToStr(n) == IF n < 10 THEN <<DigitChar(n)>> ELSE NatToStr(n \div 10) \o <<DigitChar(n % 10)>>

\* str(x) of a JSON scalar: a string is itself, an integer its decimal digits
str(x) ==
  CASE x.t = "str" -> x.v
    [] x.t = "int" -> IF x.v < 0 THEN <<"-">> \o NatToStr(-x.v) ELSE NatToStr(x.v)
    [] x.t = "None" -> <<"N", "o", "n", "e">>

\* the position of the last pair with key k
LastIndex(pairs, k) ==
  CHOOSE i \in DOMAIN pairs :
    pairs[i][1] = k /\ \A j \in (i + 1)..Len(pairs) : pairs[j][1] # k

\* dict(pairs) and the dict comprehension {k: v for ...}: a later pair replaces
\* an earlier one with the same key
DictOf(pairs) ==
  [k \in {pairs[i][1] : i \in DOMAIN pairs} |-> pairs[LastIndex(pairs, k)][2]]

\* {}
EmptyDict == [k \in {} |-> None]

\* d.get(k, default)
Get(d, k, default) == IF k \in DOMAIN d THEN d[k] ELSE default

(* ----------------------- the measure-point registry -------------------- *)

measure_points_literal ==
  <<
     <<<<"8","3","0","2","2">>, <<"d","a","i","l","y","_","y","i","e","l","d">>>>,
     <<<<"8","3","0","2","4">>, <<"t","o","t","a","l","_","y","i","e","l","d">>>>,
     <<<<"8","3","0","3","3">>, <<"p","o","w","e","r">>>>,
     <<<<"8","3","0","1","9">>, <<"p","o","w","e","r","_","f","r","a","c","t","i","o","n">>>>,
     <<<<"8","3","0","0","6">>, <<"m","e","t","e","r","_","d","a","i","l","y","_","y","i","e","l","d">>>>,
     <<<<"8","3","0","2","0">>, <<"m","e","t","e","r","_","t","o","t","a","l","_","y","i","e","l","d">>>>,
     <<<<"8","3","0","1","1">>, <<"m","e","t","e","r","_","e","_","d","a","i","l","y","_","c","o","n","s","u","m","p","t","i","o","n">>>>,
     <<<<"8","3","0","2","1">>, <<"a","c","c","u","m","u","l","a","t","i","v","e","_","p","o","w","e","r","_","c","o","n","s","u","m","p","t","i","o","n","_","b","y","_","m","e","t","e","r">>>>,
     <<<<"8","3","0","3","2">>, <<"m","e","t","e","r","_","a","c","_","p","o","w","e","r">>>>,
     <<<<"8","3","0","0","7">>, <<"m","e","t","e","r","_","p","r">>>>,
     <<<<"8","3","0","0","2">>, <<"i","n","v","e","r","t","e","r","_","a","c","_","p","o","w","e","r">>>>,
     <<<<"8","3","0","0","9">>, <<"i","n","v","e","r","t","e","r","_","d","a","i","l","y","_","y","i","e","l","d">>>>,
     <<<<"8","3","0","0","4">>, <<"i","n","v","e","r","t","e","r","_","t","o","t","a","l","_","y","i","e","l","d">>>>,
     <<<<"8","3","0","1","2">>, <<"p","_","r","a","d","i","a","t","i","o","n","_","h">>>>,
     <<<<"8","3","0","1","3">>, <<"d","a","i","l","y","_","i","r","r","a","d","i","a","t","i","o","n">>>>,
     <<<<"8","3","0","2","3">>, <<"p","l","a","n","t","_","p","r">>>>,
     <<<<"8","3","0","0","5">>, <<"d","a","i","l","y","_","e","q","u","i","v","a","l","e","n","t","_","h","o","u","r","s">>>>,
     <<<<"8","3","0","2","5">>, <<"p","l","a","n","t","_","e","q","u","i","v","a","l","e","n","t","_","h","o","u","r","s">>>>,
     <<<<"8","3","0","1","8">>, <<"d","a","i","l","y","_","y","i","e","l","d","_","t","h","e","o","r","e","t","i","c","a","l">>>>,
     <<<<"8","3","0","0","1">>, <<"i","n","v","e","r","t","e","r","_","a","c","_","p","o","w","e","r","_","n","o","r","m","a","l","i","z","a","t","i","o","n">>>>,
     <<<<"8","3","0","0","8">>, <<"d","a","i","l","y","_","e","q","u","i","v","a","l","e","n","t","_","h","o","u","r","s","_","o","f","_","i","n","v","e","r","t","e","r">>>>,
     <<<<"8","3","0","1","0">>, <<"i","n","v","e","r","t","e","r","_","p","r">>>>,
     <<<<"8","3","0","1","6">>, <<"p","l","a","n","t","_","a","m","b","i","e","n","t","_","t","e","m","p","e","r","a","t","u","r","e">>>>,
     <<<<"8","3","0","1","7">>, <<"p","l","a","n","t","_","m","o","d","u","l","e","_","t","e","m","p","e","r","a","t","u","r","e">>>>,
     <<<<"8","3","0","4","6">>, <<"p","c","s","_","t","o","t","a","l","_","a","c","t","i","v","e","_","p","o","w","e","r">>>>,
     <<<<"8","3","0","5","2">>, <<"t","o","t","a","l","_","l","o","a","d","_","a","c","t","i","v","e","_","p","o","w","e","r">>>>,
     <<<<"8","3","0","6","7">>, <<"t","o","t","a","l","_","a","c","t","i","v","e","_","p","o","w","e","r","_","o","f","_","p","v">>>>,
     <<<<"8","3","0","9","7">>, <<"d","a","i","l","y","_","d","i","r","e","c","t","_","e","n","e","r","g","y","_","c","o","n","s","u","m","p","t","i","o","n">>>>,
     <<<<"8","3","1","0","0">>, <<"t","o","t","a","l","_","d","i","r","e","c","t","_","e","n","e","r","g","y","_","c","o","n","s","u","m","p","t","i","o","n">>>>,
     <<<<"8","3","1","0","2">>, <<"e","n","e","r","g","y","_","p","u","r","c","h","a","s","e","d","_","t","o","d","a","y">>>>,
     <<<<"8","3","1","0","5">>, <<"t","o","t","a","l","_","p","u","r","c","h","a","s","e","d","_","e","n","e","r","g","y">>>>,
     <<<<"8","3","1","0","6">>, <<"l","o","a","d","_","p","o","w","e","r">>>>,
     <<<<"8","3","1","1","8">>, <<"d","a","i","l","y","_","l","o","a","d","_","c","o","n","s","u","m","p","t","i","o","n">>>>,
     <<<<"8","3","1","2","4">>, <<"t","o","t","a","l","_","l","o","a","d","_","c","o","n","s","u","m","p","t","i","o","n">>>>,
     <<<<"8","3","1","1","9">>, <<"d","a","i","l","y","_","f","e","e","d","_","i","n","_","e","n","e","r","g","y","_","p","v">>>>,
     <<<<"8","3","0","7","2">>, <<"f","e","e","d","_","i","n","_","e","n","e","r","g","y","_","t","o","d","a","y">>>>,
     <<<<"8","3","0","7","5">>, <<"f","e","e","d","_","i","n","_","e","n","e","r","g","y","_","t","o","t","a","l">>>>,
     <<<<"8","3","2","5","2">>, <<"b","a","t","t","e","r","y","_","l","e","v","e","l","_","s","o","c">>>>,
     <<<<"8","3","1","2","9">>, <<"b","a","t","t","e","r","y","_","s","o","c">>>>,
     <<<<"8","3","2","3","2">>, <<"t","o","t","a","l","_","f","i","e","l","d","_","s","o","c">>>>,
     <<<<"8","3","2","3","3">>, <<"t","o","t","a","l","_","f","i","e","l","d","_","m","a","x","i","m","u","m","_","r","e","c","h","a","r","g","e","a","b","l","e","_","p","o","w","e","r">>>>,
     <<<<"8","3","2","3","4">>, <<"t","o","t","a","l","_","f","i","e","l","d","_","m","a","x","i","m","u","m","_","d","i","s","c","h","a","r","g","e","a","b","l","e","_","p","o","w","e","r">>>>,
     <<<<"8","3","2","3","5">>, <<"t","o","t","a","l","_","f","i","e","l","d","_","c","h","a","r","g","e","a","b","l","e","_","e","n","e","r","g","y">>>>,
     <<<<"8","3","2","3","6">>, <<"t","o","t","a","l","_","f","i","e","l","d","_","d","i","s","c","h","a","r","g","e","a","b","l","e","_","e","n","e","r","g","y">>>>,
     <<<<"8","3","2","3","7">>, <<"t","o","t","a","l","_","f","i","e","l","d","_","e","n","e","r","g","y","_","s","t","o","r","a","g","e","_","m","a","x","i","m","u","m","_","r","e","a","c","t","i","v","e","_","p","o","w","e","r">>>>,
     <<<<"8","3","2","3","8">>, <<"t","o","t","a","l","_","f","i","e","l","d","_","e","n","e","r","g","y","_","s","t","o","r","a","g","e","_","a","c","t","i","v","e","_","p","o","w","e","r">>>>,
     <<<<"8","3","2","3","9">>, <<"t","o","t","a","l","_","f","i","e","l","d","_","r","e","a","c","t","i","v","e","_","p","o","w","e","r">>>>,
     <<<<"8","3","2","4","0">>, <<"t","o","t","a","l","_","f","i","e","l","d","_","p","o","w","e","r","_","f","a","c","t","o","r">>>>,
     <<<<"8","3","2","4","3">>, <<"d","a","i","l","y","_","f","i","e","l","d","_","c","h","a","r","g","e","_","c","a","p","a","c","i","t","y">>>>,
     <<<<"8","3","2","4","1">>, <<"t","o","t","a","l","_","f","i","e","l","d","_","c","h","a","r","g","e","_","c","a","p","a","c","i","t","y">>>>,
     <<<<"8","3","2","4","4">>, <<"d","a","i","l","y","_","f","i","e","l","d","_","d","i","s","c","h","a","r","g","e","_","c","a","p","a","c","i","t","y">>>>,
     <<<<"8","3","2","4","2">>, <<"t","o","t","a","l","_","f","i","e","l","d","_","d","i","s","c","h","a","r","g","e","_","c","a","p","a","c","i","t","y">>>>,
     <<<<"8","3","5","4","8">>, <<"t","o","t","a","l","_","n","u","m","b","e","r","_","o","f","_","c","h","a","r","g","e","_","d","i","s","c","h","a","r","g","e">>>>,
     <<<<"8","3","5","4","9">>, <<"g","r","i","d","_","a","c","t","i","v","e","_","p","o","w","e","r">>>>,
     <<<<"8","3","4","1","9">>, <<"d","a","i","l","y","_","h","i","g","h","e","s","t","_","i","n","v","e","r","t","e","r","_","p","o","w","e","r","_","i","n","v","e","r","t","e","r","_","i","n","s","t","a","l","l","e","d","_","c","a","p","a","c","i","t","y">>>>,
     <<<<"8","3","3","1","7">>, <<"p","o","w","e","r","_","f","o","r","e","c","a","s","t">>>>,
     <<<<"8","3","3","1","8">>, <<"p","l","a","n","n","e","d","_","e","s","_","c","h","a","r","g","i","n","g","_","d","i","s","c","h","a","r","g","i","n","g","_","p","o","w","e","r">>>>,
     <<<<"8","3","3","1","9">>, <<"p","l","a","n","n","e","d","_","e","s","_","s","o","c">>>>,
     <<<<"8","3","3","2","0">>, <<"p","l","a","n","n","e","d","_","c","h","a","r","g","i","n","g","_","p","o","w","e","r">>>>,
     <<<<"8","3","3","2","1">>, <<"p","l","a","n","n","e","d","_","d","i","s","c","h","a","r","g","i","n","g","_","p","o","w","e","r">>>>,
     <<<<"8","3","3","2","2">>, <<"e","s","s","_","d","a","i","l","y","_","c","h","a","r","g","e","_","e","m","s">>>>,
     <<<<"8","3","3","2","4">>, <<"e","n","e","r","g","y","_","s","t","o","r","a","g","e","_","c","u","m","u","l","a","t","i","v","e","_","c","h","a","r","g","e">>>>,
     <<<<"8","3","3","2","3">>, <<"e","s","s","_","d","a","i","l","y","_","d","i","s","c","h","a","r","g","e","_","e","m","s">>>>,
     <<<<"8","3","3","2","5">>, <<"c","u","m","u","l","a","t","i","v","e","_","d","i","s","c","h","a","r","g","e">>>>,
     <<<<"8","3","3","2","7">>, <<"e","n","e","r","g","y","_","s","t","o","r","a","g","e","_","r","e","m","a","i","n","i","n","g","_","c","h","a","r","g","e">>>>,
     <<<<"8","3","3","2","6">>, <<"e","n","e","r","g","y","_","s","t","o","r","a","g","e","_","a","c","t","i","v","e","_","p","o","w","e","r","_","e","m","s">>>>,
     <<<<"8","3","3","2","8">>, <<"g","r","i","d","_","a","c","t","i","v","e","_","p","o","w","e","r","_","e","m","s">>>>,
     <<<<"8","3","3","2","9">>, <<"p","v","_","a","c","t","i","v","e","_","p","o","w","e","r","_","e","m","s">>>>,
     <<<<"8","3","3","3","0">>, <<"l","o","a","d","_","a","c","t","i","v","e","_","p","o","w","e","r","_","e","m","s">>>>,
     <<<<"8","3","3","3","1">>, <<"d","a","i","l","y","_","p","v","_","y","i","e","l","d","_","e","m","s">>>>,
     <<<<"8","3","3","3","2">>, <<"t","o","t","a","l","_","p","v","_","y","i","e","l","d">>>>,
     <<<<"8","3","3","3","4">>, <<"e","n","e","r","g","y","_","s","t","o","r","a","g","e","_","s","o","c","_","e","m","s">>>>,
     <<<<"8","3","3","3","5">>, <<"e","n","e","r","g","y","_","s","t","o","r","a","g","e","_","r","e","m","a","i","n","i","n","g","_","c","h","a","r","g","e","_","e","m","s">>>>
  >>

\* the same literal with the code of 83024 mistyped as that of 83022
measure_points_items_dup ==
  [i \in DOMAIN measure_points_literal |->
     IF i = 2 THEN <<measure_points_literal[2][1], measure_points_literal[1][2]>>
     ELSE measure_points_literal[i]]

\* self.measure_points.items(): the entries of the dict the literal builds, in
\* insertion order, a repeated key keeping its first position and last value
measure_points_items ==
  LET lit == measure_points_literal
      RECURSIVE walk(_)
      walk(i) ==
        IF i > Len(lit) THEN <<>>
        ELSE IF \E j \in 1..(i - 1) : lit[j][1] = lit[i][1] THEN walk(i + 1)
        ELSE <<<<lit[i][1], lit[LastIndex(lit, lit[i][1])][2]>>>> \o walk(i + 1)
  IN walk(1)

\* the class attribute: a dict from numeric id to semantic code
measure_points == DictOf(measure_points_items)

\* list(self.measure_points.keys())
measure_points_keys == [i \in DOMAIN measure_points_items |-> measure_points_items[i][1]]

\* {v: k for k, v in self.measure_points.items()}
measure_points_map ==
  DictOf([i \in DOMAIN measure_points_items |->
            <<measure_points_items[i][2], measure_points_items[i][1]>>])

\* self.measure_points.get(point_id, point_id)
codeOf(point_id) == Get(measure_points, point_id, point_id)

(* ------------------------------ float() -------------------------------- *)

RECURSIVE Norm(_, _)
\* the number m * 10^e in lowest terms of ten (a zero has no sign)
Norm(m, e) ==
  IF m = 0 THEN [t |-> "float", m |-> 0, e |-> 0]
  ELSE IF m % 10 = 0 THEN Norm(m \div 10, e + 1)
  ELSE [t |-> "float", m |-> m, e |-> e]

PyFloat(m, e) == Norm(m, e)

Whitespace == {" "}

RECURSIVE lstrip(_)
lstrip(s) == IF Len(s) > 0 /\ Head(s) \in Whitespace THEN lstrip(Tail(s)) ELSE s

RECURSIVE rstrip(_)
rstrip(s) ==
  IF Len(s) > 0 /\ s[Len(s)] \in Whitespace THEN rstrip(SubSeq(s, 1, Len(s) - 1)) ELSE s

strip(s) == rstrip(lstrip(s))

lower(c) ==
  CASE c = "I" -> "i" [] c = "N" -> "n" [] c = "F" -> "f" [] c = "T" -> "t"
    [] c = "Y" -> "y" [] c = "A" -> "a" [] c = "E" -> "e" [] OTHER -> c

\* digits, single underscores allowed between two digits
IsDigitPart(s) ==
  /\ Len(s) > 0
  /\ \A i \in 1..Len(s) : s[i] \in Digits \cup {"_"}
  /\ s[1] \in Digits /\ s[Len(s)] \in Digits
  /\ \A i \in 1..(Len(s) - 1) : ~(s[i] = "_" /\ s[i + 1] = "_")

RECURSIVE DigitsVal(_)
\* the value of a digit part, its underscores skipped
DigitsVal(s) ==
  IF Len(s) = 0 THEN 0
  ELSE LET c == s[Len(s)]
           r == SubSeq(s, 1, Len(s) - 1)
       IN IF c = "_" THEN DigitsVal(r) ELSE 10 * DigitsVal(r) + DigitVal(c)

NumDigits(s) == Cardinality({i \in 1..Len(s) : s[i] \in Digits})

\* first position of a character of cs in s, or 0
Find(s, cs) ==
  IF \E i \in 1..Len(s) : s[i] \in cs
  THEN CHOOSE i \in 1..Len(s) : s[i] \in cs /\ \A j \in 1..(i - 1) : s[j] \notin cs
  ELSE 0

\* the pieces of a float literal: sign, body, mantissa, exponent, integer and
\* fraction digits
FloatParts(raw) ==
  LET s == strip(raw)
      signed == Len(s) > 0 /\ s[1] \in {"+", "-"}
      body == IF signed THEN Tail(s) ELSE s
      ex == Find(body, {"e", "E"})
      mant == IF ex = 0 THEN body ELSE SubSeq(body, 1, ex - 1)
      expo == IF ex = 0 THEN <<>> ELSE SubSeq(body, ex + 1, Len(body))
      esigned == Len(expo) > 0 /\ expo[1] \in {"+", "-"}
      dot == Find(mant, {"."})
  IN [neg |-> signed /\ s[1] = "-",
      word |-> [i \in 1..Len(body) |-> lower(body[i])],
      hasexp |-> ex # 0,
      eneg |-> esigned /\ expo[1] = "-",
      edigits |-> IF esigned THEN Tail(expo) ELSE expo,
      hasdot |-> dot # 0,
      ip |-> IF dot = 0 THEN mant ELSE SubSeq(mant, 1, dot - 1),
      fp |-> IF dot = 0 THEN <<>> ELSE SubSeq(mant, dot + 1, Len(mant))]

InfWords == {<<"i", "n", "f">>, <<"i", "n", "f", "i", "n", "i", "t", "y">>}

NanWord == <<"n", "a", "n">>

\* whether float(raw) succeeds on a string (otherwise it raises ValueError)
IsFloatLiteral(raw) ==
  LET p == FloatParts(raw)
  IN \/ p.word \in InfWords \cup {NanWord}
     \/ /\ IF p.hasdot
           THEN /\ p.ip = <<>> \/ IsDigitPart(p.ip)
                /\ p.fp = <<>> \/ IsDigitPart(p.fp)
                /\ ~(p.ip = <<>> /\ p.fp = <<>>)
           ELSE IsDigitPart(p.ip)
        /\ p.hasexp => IsDigitPart(p.edigits)

\* float(raw) of a string for which it succeeds
ParseFloat(raw) ==
  LET p == FloatParts(raw)
      m == DigitsVal(p.ip \o p.fp)
      x == IF p.hasexp THEN DigitsVal(p.edigits) ELSE 0
  IN IF p.word \in InfWords THEN Special(IF p.neg THEN "-inf" ELSE "inf")
     ELSE IF p.word = NanWord THEN Special("nan")
     ELSE PyFloat(IF p.neg THEN -m ELSE m, (IF p.eneg THEN -x ELSE x) - NumDigits(p.fp))

\* float(x) raises ValueError
float_raises(x) == x.t = "str" /\ ~IsFloatLiteral(x.v)

\* float(x) of a str or an int
float(x) == IF x.t = "int" THEN PyFloat(x.v, 0) ELSE ParseFloat(x.v)

(* ----------------------- _format_measure_point ------------------------- *)

\* the except branch dropping the raw text instead of keeping it
coerce_drop(point_value) ==
  IF point_value = None THEN None
  ELSE IF float_raises(point_value) THEN None
  ELSE float(point_value)

\* try: v = float(point_value) if point_value is not None else None
\* except ValueError: v = point_value
coerce(point_value) ==
  IF point_value = None THEN None
  ELSE IF float_raises(point_value) THEN point_value
  ELSE float(point_value)

\* the code looked up without the fallback to the id
format_code_nofallback(point_id) == Get(measure_points, point_id, <<>>)

\* self.measure_points.get(point_id, point_id)
format_code(point_id) == codeOf(point_id)

_format_measure_point(point_id, point_value, point_dict) ==
  [id |-> point_id,
   code |-> format_code(point_id),
   value |-> coerce(point_value),
   unit |-> Get(Get(point_dict, point_id, EmptyDict), "point_unit", None),
   name |-> Get(Get(point_dict, point_id, EmptyDict), "point_name", None)]

(* -------------------------- call outcomes ------------------------------ *)

\* a call returned value
Return(value) == [kind |-> "return", value |-> value]

\* a call raised exception exc from source line `line`, with argument arg
Raise(exc, line, arg) == [kind |-> "raise", exc |-> exc, line |-> line, arg |-> arg]

(* ------------------- the transport (AbstractAuth) ---------------------- *)

\* a response body that does not decode as JSON
Undecodable == [t |-> "undecodable"]

\* the response auth.request resolves to: an HTTP status and a body
Response(status, body) == [status |-> status, body |-> body]

\* res.raise_for_status() raises
raise_for_status_raises(res) == res.status >= 400

\* await res.json() raises
json_raises(res) == res.body = Undecodable

(* --------------------- async_get_realtime_data ------------------------- *)

realtime_uri == "/openapi/platform/getPowerStationRealTimeData"

\* the default of the constructor's lang parameter
default_lang == "_en_US"

\* lines 59-62: a single plant id becomes a one-element list
normalize_plant_id(plant_id) == IF plant_id.t = "list" THEN plant_id.v ELSE <<plant_id.v>>

\* the positions of a measure_points list that the comprehension of line 67 cannot
\* resolve, by position
unresolved(names) ==
  {i \in DOMAIN names :
     ~isdigit(names[i]) /\ names[i] \notin DOMAIN measure_points_map}

\* a Python list
PyList(seq) == [t |-> "list", v |-> seq]

\* line 67 leaving out the names it cannot resolve instead of failing
resolve_skip(mp) ==
  IF mp = None THEN Return(measure_points_keys)
  ELSE LET names == mp.v
           RECURSIVE pick(_)
           pick(i) ==
             IF i > Len(names) THEN <<>>
             ELSE IF i \in unresolved(names) THEN pick(i + 1)
             ELSE <<IF isdigit(names[i]) THEN names[i]
                    ELSE measure_points_map[names[i]]>> \o pick(i + 1)
       IN Return(pick(1))

\* lines 63-67: the numeric ids to request, or the KeyError of the first name
\* that is neither all-digit nor a key of the inverted registry
resolve(mp) ==
  IF mp = None THEN Return(measure_points_keys)
  ELSE LET names == mp.v
           bad == unresolved(names)
       IN IF bad # {}
          THEN Raise("KeyError", 67, names[CHOOSE i \in bad : \A j \in bad : i <= j])
          ELSE Return([i \in DOMAIN names |->
                         IF isdigit(names[i]) THEN names[i]
                         ELSE measure_points_map[names[i]]])

\* line 69: the request handed to auth.request
realtime_request(ps, ms) ==
  [uri |-> realtime_uri,
   params |-> [ps_id_list |-> ps, point_id_list |-> ms, is_get_point_dict |-> "1"],
   lang |-> default_lang]

\* plant[key] of a decoded JSON object kept as its (key, value) pairs in order
HasKey(plant, key) == \E i \in DOMAIN plant : plant[i][1] = key

Item(plant, key) == DictOf(plant)[key]

ps_id_key == <<"p", "s", "_", "i", "d">>

\* the filter of line 77: k[0]=='p' and k[1:].isdigit()
is_point_key(k) == Head(k) = "p" /\ isdigit(Tail(k))

\* line 77: the Readings of one plant record, in the order of its fields
plant_data(plant, point_dict) ==
  LET RECURSIVE walk(_)
      walk(i) ==
        IF i > Len(plant) THEN <<>>
        ELSE IF is_point_key(plant[i][1])
        THEN <<_format_measure_point(Tail(plant[i][1]), plant[i][2], point_dict)>>
               \o walk(i + 1)
        ELSE walk(i + 1)
  IN walk(1)

\* line 78 filling in a null Reading for every requested point the record lacks
data_as_dict_filled(data) ==
  LET d == DictOf([i \in DOMAIN data |-> <<data[i].code, data[i]>>])
      code == measure_points_literal[1][2]
  IN [c \in DOMAIN d \cup {code} |->
        IF c \in DOMAIN d THEN d[c]
        ELSE [id |-> measure_points_literal[1][1], code |-> code, value |-> None,
              unit |-> None, name |-> None]]

\* line 78: {d["code"]: d for d in data}
data_as_dict(data) == DictOf([i \in DOMAIN data |-> <<data[i].code, data[i]>>])

\* lines 76-79: the loop over device_point_list from record i on, plants being
\* the dict built so far
RECURSIVE reshape_plants(_, _, _, _)
reshape_plants(list, i, point_dict, plants) ==
  IF i > Len(list) THEN Return(plants)
  ELSE LET plant == list[i]
       IN IF \E j \in DOMAIN plant : plant[j][1] = <<>>
          THEN Raise("IndexError", 77, "k[0]")
          ELSE IF ~HasKey(plant, ps_id_key)
          THEN Raise("KeyError", 79, "ps_id")
          ELSE LET key == str(Item(plant, ps_id_key))
                   d == data_as_dict(plant_data(plant, point_dict))
               IN reshape_plants(list, i + 1, point_dict,
                                 [k \in DOMAIN plants \cup {key} |->
                                    IF k = key THEN d ELSE plants[k]])

\* lines 74-81: the body without the error indicator, reshaped
reshape_body(res) ==
  IF "result_data" \notin DOMAIN res THEN Raise("KeyError", 74, "result_data")
  ELSE LET rd == res.result_data
       IN IF rd = None THEN Raise("TypeError", 74, "result_data")
          ELSE IF "point_dict" \notin DOMAIN rd THEN Raise("KeyError", 74, "point_dict")
          ELSE IF \E i \in DOMAIN rd.point_dict : "point_id" \notin DOMAIN rd.point_dict[i]
          THEN Raise("KeyError", 74, "point_id")
          ELSE IF "device_point_list" \notin DOMAIN rd
          THEN Raise("KeyError", 76, "device_point_list")
          ELSE reshape_plants(rd.device_point_list, 1,
                              DictOf([i \in DOMAIN rd.point_dict |->
                                        <<str(rd.point_dict[i].point_id), rd.point_dict[i]>>]),
                              EmptyDict)

\* lines 71-73 left out: a body with the error indicator is interpreted too
reshape_ignore_error(res) == reshape_body(res)

\* lines 71-81: from the decoded body to the returned dict or the exception
reshape(res) ==
  IF "error" \in DOMAIN res THEN Raise("PySolarCloudException", 73, res)
  ELSE reshape_body(res)

(* ------------------------- inputs of the model ------------------------- *)

P1 == <<"P", "1">>

P2 == <<"P", "2">>

daily_yield == <<"d", "a", "i", "l", "y", "_", "y", "i", "e", "l", "d">>

bogus_metric == <<"b", "o", "g", "u", "s", "_", "m", "e", "t", "r", "i", "c">>

id83022 == <<"8", "3", "0", "2", "2">>

id83099 == <<"8", "3", "0", "9", "9">>

p83022 == <<"p">> \o id83022

p83099 == <<"p">> \o id83099

raw123_4 == <<"1", "2", "3", ".", "4">>

rawNA == <<"N", "/", "A">>

\* all sequences over S of length at most n
SeqsUpTo(S, n) == UNION {[1..k -> S] : k \in 0..n}

\* the plant_id arguments: a single id, or a list of 1..MaxPlantIds ids
PlantIdInputs ==
  {PyStr(P1)} \cup {PyList(s) : s \in SeqsUpTo({P1, P2}, MaxPlantIds) \ {<<>>}}

\* the measure_points arguments: None, or a list of at most MaxPoints names
MeasurePointInputs ==
  {None} \cup {PyList(s) : s \in SeqsUpTo({daily_yield, id83099, bogus_metric}, MaxPoints)}

\* the point fields a plant record carries
FieldSets ==
  {<<>>,
   <<<<p83022, PyStr(raw123_4)>>>>,
   <<<<p83022, PyStr(raw123_4)>>, <<p83099, PyStr(<<"1">>)>>>>}

\* plant records: with ps_id P1 or P2 (a string), or without ps_id
PlantRecords ==
  {<<<<ps_id_key, PyStr(p)>>>> \o f : p \in {P1, P2}, f \in FieldSets}
    \cup {<<<<p83022, PyStr(raw123_4)>>>>}

\* records with keys that are no point fields, an integer ps_id, an empty key
OddRecords ==
  {<<<<ps_id_key, PyInt(17)>>, <<<<"p">>, PyStr(<<"1">>)>>, <<<<"p", "x">>, PyStr(<<"1">>)>>,
     <<<<"q", "1">>, PyStr(<<"1">>)>>, <<p83022, None>>>>,
   <<<<ps_id_key, PyStr(P1)>>, <<<<>>, PyStr(<<"1">>)>>>>}

\* a point dictionary whose point_id is a JSON integer
PointDict ==
  <<[point_id |-> PyInt(83022), point_unit |-> PyStr(<<"W", "h">>),
     point_name |-> PyStr(<<"Y", "i", "e", "l", "d">>)]>>

\* decoded bodies with the expected structure: up to n plant records
ShapedBodies(n) ==
  {[result_data |-> [point_dict |-> PointDict, device_point_list |-> l]] :
     l \in SeqsUpTo(PlantRecords, n)}
    \cup {[result_data |-> [point_dict |-> <<>>, device_point_list |-> <<r>>]] :
            r \in PlantRecords \cup OddRecords}

GoodData ==
  [point_dict |-> <<>>,
   device_point_list |-> <<<<<<ps_id_key, PyStr(P1)>>, <<p83022, PyStr(raw123_4)>>>>>>]

\* decoded bodies with the vendor's error indicator, with and without data
ErrorBodies ==
  {[error |-> PyStr(<<"E">>)], [error |-> PyStr(<<"E">>), result_data |-> GoodData]}

\* decoded bodies without the error indicator that lack part of the structure
MalformedBodies ==
  {[result_code |-> PyStr(<<"E">>)],
   [result_code |-> PyStr(<<"E">>), result_data |-> None],
   [result_data |-> [device_point_list |-> GoodData.device_point_list]],
   [result_data |-> [point_dict |-> <<>>]],
   [result_data |-> [point_dict |-> <<[point_unit |-> PyStr(<<"W">>)]>>,
                     device_point_list |-> <<>>]],
   [result_data |-> [point_dict |-> <<>>,
                     device_point_list |-> <<<<<<p83022, PyStr(raw123_4)>>>>>>]]}

\* what the transport may answer a realtime request with
RealtimeResponses ==
  {Response(200, b) : b \in ShapedBodies(MaxRecords) \cup ErrorBodies \cup MalformedBodies}
    \cup {Response(500, b) : b \in ShapedBodies(1) \cup ErrorBodies \cup MalformedBodies}
    \cup {Response(200, Undecodable), Response(500, Undecodable)}

(* ------------------------- the state machine --------------------------- *)

Init ==
  /\ op = "none"
  /\ pc = "idle"
  /\ args = None
  /\ payload = None
  /\ requests = 0
  /\ response = None
  /\ outcome = None

\* lines 59-69 up to the await: the caller enters async_get_realtime_data, the
\* point selection is resolved and, if it resolves, auth.request is invoked
async_get_realtime_data(plant_id, measure_points_arg) ==
  /\ pc = "idle"
  /\ op' = "realtime"
  /\ args' = [plant_id |-> plant_id, measure_points |-> measure_points_arg]
  /\ LET ps == normalize_plant_id(plant_id)
         ms == resolve(measure_points_arg)
     IN IF ms.kind = "raise"
        THEN /\ outcome' = ms
             /\ pc' = "done"
             /\ UNCHANGED <<payload, requests>>
        ELSE /\ payload' = realtime_request(ps, ms.value)
             /\ requests' = requests + 1
             /\ pc' = "await_request"
             /\ UNCHANGED outcome
  /\ UNCHANGED response

\* auth.request resolves to a response
request_returns(res) ==
  /\ pc = "await_request"
  /\ response' = res
  /\ pc' = "await_json"
  /\ UNCHANGED <<op, args, payload, requests, outcome>>

\* auth.request raises (no connection): the exception leaves the call unchanged
request_raises ==
  /\ pc = "await_request"
  /\ outcome' = Raise("TransportError", 69, "request")
  /\ pc' = "done"
  /\ UNCHANGED <<op, args, payload, requests, response>>

\* a call that, on a vendor error body, issues the request again
realtime_continue_retry ==
  /\ op = "realtime"
  /\ pc = "await_json"
  /\ IF json_raises(response)
     THEN /\ outcome' = Raise("TransportError", 70, "json")
          /\ pc' = "done"
          /\ UNCHANGED requests
     ELSE IF "error" \in DOMAIN response.body /\ requests < 2
     THEN /\ requests' = requests + 1
          /\ pc' = "await_request"
          /\ UNCHANGED outcome
     ELSE /\ outcome' = reshape(response.body)
          /\ pc' = "done"
          /\ UNCHANGED requests
  /\ UNCHANGED <<op, args, payload, response>>

\* lines 70-81: the body is decoded (no status check comes first) and reshaped
realtime_continue ==
  /\ op = "realtime"
  /\ pc = "await_json"
  /\ outcome' = IF json_raises(response) THEN Raise("TransportError", 70, "json")
                ELSE reshape(response.body)
  /\ pc' = "done"
  /\ UNCHANGED <<op, args, payload, requests, response>>

\* the caller receives the outcome; nothing of the call is kept
finish ==
  /\ pc = "done"
  /\ op' = "none"
  /\ pc' = "idle"
  /\ args' = None
  /\ payload' = None
  /\ requests' = 0
  /\ response' = None
  /\ outcome' = None

Next ==
  \/ \E p \in PlantIdInputs, m \in MeasurePointInputs : async_get_realtime_data(p, m)
  \/ \E r \in RealtimeResponses : request_returns(r)
  \/ request_raises
  \/ realtime_continue
  \/ finish

Spec == Init /\ [][Next]_vars

(* ------------------- claims on async_get_realtime_data ----------------- *)

\* C1: a call of async_get_realtime_data whose measure_points holds a name that is
\* neither all-digit nor a semantic code of the registry has ended, in the step
\* that entered it, with the KeyError of line 67 on such a name (the spec's
\* UnknownMeasurePoint), and auth.request was never invoked: no request was
\* built and the request count of the call is zero.
C1_UnknownNameFailsBeforeRequest ==
  LET codes == {measure_points_literal[i][2] : i \in DOMAIN measure_points_literal}
  IN (op = "realtime" /\ args.measure_points # None) =>
       LET names == args.measure_points.v
           bad == {i \in DOMAIN names : ~isdigit(names[i]) /\ names[i] \notin codes}
       IN bad # {} =>
            /\ pc = "done"
            /\ outcome # None /\ outcome.kind = "raise"
            /\ outcome.exc = "KeyError" /\ outcome.line = 67
            /\ \E i \in bad : outcome.arg = names[i]
            /\ requests = 0
            /\ payload = None
            /\ response = None

\* C1 witness: the call with a resolvable and an unresolvable name has failed
C1_Witness ==
  /\ op = "realtime" /\ pc = "done"
  /\ args.measure_points = PyList(<<daily_yield, bogus_metric>>)
  /\ outcome = Raise("KeyError", 67, bogus_metric)
  /\ requests = 0

\* C2: no call ever has more than one request to its name, and a call whose
\* point selection resolves has exactly one from its first step on, whatever the
\* plant ids (all of them, duplicates kept, go into that one request) and the
\* points, and also once a vendor error body has come back.
C2_ExactlyOneRequest ==
  /\ requests <= 1
  /\ op = "realtime" =>
       LET codes == {measure_points_literal[i][2] : i \in DOMAIN measure_points_literal}
           resolves ==
             \/ args.measure_points = None
             \/ /\ args.measure_points # None
                /\ \A i \in DOMAIN args.measure_points.v :
                     \/ isdigit(args.measure_points.v[i])
                     \/ args.measure_points.v[i] \in codes
       IN resolves =>
            /\ requests = 1
            /\ payload # None
            /\ payload.params.ps_id_list =
                 (IF args.plant_id.t = "list" THEN args.plant_id.v ELSE <<args.plant_id.v>>)
            /\ args.measure_points # None =>
                 Len(payload.params.point_id_list) = Len(args.measure_points.v)

\* C2 witness: a call for the plant list [P1, P1] has ended on a vendor error
\* body with one request issued
C2_Witness ==
  /\ op = "realtime" /\ pc = "done"
  /\ args.plant_id = PyList(<<P1, P1>>)
  /\ response # None /\ "error" \in DOMAIN response.body
  /\ outcome.kind = "raise" /\ outcome.exc = "PySolarCloudException"
  /\ requests = 1

\* C3: when the decoded body carries the key "error", the call raises
\* PySolarCloudException (the spec's RemoteServiceError) whose argument is the
\* decoded body itself, and returns no result, whatever result_data the body has.
C3_ErrorBodyRaises ==
  (op = "realtime" /\ pc = "done" /\ response # None /\ "error" \in DOMAIN response.body) =>
    /\ outcome.kind = "raise"
    /\ outcome.exc = "PySolarCloudException"
    /\ outcome.arg = response.body

\* C3 witness: an error body that also carries usable result_data was answered
\* with the exception
C3_Witness ==
  /\ op = "realtime" /\ pc = "done" /\ response # None
  /\ "error" \in DOMAIN response.body /\ "result_data" \in DOMAIN response.body
  /\ outcome = Raise("PySolarCloudException", 73, response.body)

\* C4 as stated: in a returned result every plant record of the response has an
\* entry, and that entry holds a Reading under the code of every requested point,
\* with the value None when the record has no field for the point.
C4_Original ==
  (op = "realtime" /\ pc = "done" /\ outcome.kind = "return" /\ response.status = 200) =>
    LET list == response.body.result_data.device_point_list
        ms == payload.params.point_id_list
    IN \A i \in DOMAIN list : \A j \in DOMAIN ms :
         LET key == str(Item(list[i], ps_id_key))
             code == Get(measure_points, ms[j], ms[j])
         IN /\ key \in DOMAIN outcome.value
            /\ code \in DOMAIN outcome.value[key]
            /\ ~HasKey(list[i], <<"p">> \o ms[j]) => outcome.value[key][code].value = None

\* C4 as amended: a returned result has one entry per ps_id of the response, and
\* the entry built from a plant record (the last record of that ps_id) holds
\* one Reading per p<digits> field present in the record and nothing else: a
\* point the record has no field for has no entry in the plant's map.
C4_AbsentFieldNoEntry ==
  (op = "realtime" /\ pc = "done" /\ outcome.kind = "return") =>
    LET list == response.body.result_data.device_point_list
        key(i) == str(Item(list[i], ps_id_key))
        ids(i) == {Tail(list[i][f][1]) : f \in {g \in DOMAIN list[i] :
                     Head(list[i][g][1]) = "p" /\ isdigit(Tail(list[i][g][1]))}}
    IN /\ DOMAIN outcome.value = {key(i) : i \in DOMAIN list}
       /\ \A i \in DOMAIN list :
            (\A j \in DOMAIN list : key(j) = key(i) => j <= i) =>
              /\ DOMAIN outcome.value[key(i)] =
                   {Get(measure_points, d, d) : d \in ids(i)}
              /\ \A c \in DOMAIN outcome.value[key(i)] :
                   outcome.value[key(i)][c].id \in ids(i)

\* C4 witness: P1 has p83022 = "123.4" and P2 has no p83022; the result maps P1
\* to daily_yield with value 123.4 and P2 to an empty map
C4_Witness ==
  /\ op = "realtime" /\ pc = "done" /\ outcome.kind = "return"
  /\ args.measure_points = PyList(<<daily_yield>>)
  /\ DOMAIN outcome.value = {P1, P2}
  /\ DOMAIN outcome.value[P1] = {daily_yield}
  /\ outcome.value[P1][daily_yield].value = PyFloat(1234, -1)
  /\ DOMAIN outcome.value[P2] = {}

\* C6 as stated: when the response is a success, a decoded body without the
\* error indicator that has no result_data, or no point_dict, or no
\* device_point_list, or a plant record without ps_id, makes the call raise
\* PySolarCloudException (the spec's RemoteServiceError) with the body as
\* argument; and every exception of the call is the KeyError of line 67,
\* PySolarCloudException or a transport error.
C6_MalformedBodyIsRemoteServiceError ==
  (op = "realtime" /\ pc = "done" /\ (response = None \/ response.status = 200)) =>
    /\ (response # None /\ response.body # Undecodable /\ "error" \notin DOMAIN response.body) =>
         LET b == response.body
             malformed ==
               \/ "result_data" \notin DOMAIN b
               \/ b.result_data = None
               \/ "point_dict" \notin DOMAIN b.result_data
               \/ "device_point_list" \notin DOMAIN b.result_data
               \/ \E i \in DOMAIN b.result_data.device_point_list :
                    ~HasKey(b.result_data.device_point_list[i], ps_id_key)
         IN malformed => outcome = Raise("PySolarCloudException", 73, b)
    /\ outcome.kind = "raise" =>
         \/ outcome.exc = "KeyError" /\ outcome.line = 67
         \/ outcome.exc = "PySolarCloudException"
         \/ outcome.exc = "TransportError"

\* C7: a requested all-digit name outside the registry stands, unchanged and at
\* its position, in the request's point_id_list; and in a returned result every
\* plant whose record has the field p<that name> holds a Reading under the key
\* equal to the name, with id and code both equal to it.
C7_NumericPassthrough ==
  (op = "realtime" /\ args.measure_points # None) =>
    LET names == args.measure_points.v
        registered == {measure_points_literal[i][1] : i \in DOMAIN measure_points_literal}
        codes == {measure_points_literal[i][2] : i \in DOMAIN measure_points_literal}
    IN \A n \in DOMAIN names :
         (isdigit(names[n]) /\ names[n] \notin registered) =>
           /\ (\A i \in DOMAIN names : isdigit(names[i]) \/ names[i] \in codes) =>
                /\ payload # None
                /\ payload.params.point_id_list[n] = names[n]
           /\ (pc = "done" /\ outcome.kind = "return") =>
                LET list == response.body.result_data.device_point_list
                IN \A i \in DOMAIN list :
                     ((\A j \in DOMAIN list :
                         Item(list[j], ps_id_key) = Item(list[i], ps_id_key) => j <= i)
                      /\ HasKey(list[i], <<"p">> \o names[n])) =>
                       LET inner == outcome.value[str(Item(list[i], ps_id_key))]
                       IN /\ names[n] \in DOMAIN inner
                          /\ inner[names[n]].id = names[n]
                          /\ inner[names[n]].code = names[n]

\* C7 witness: "83099" was requested, sent as it is, and came back under the key
\* "83099" of plant P1
C7_Witness ==
  /\ op = "realtime" /\ pc = "done" /\ outcome.kind = "return"
  /\ args.measure_points = PyList(<<id83099>>)
  /\ payload.params.point_id_list = <<id83099>>
  /\ P1 \in DOMAIN outcome.value
  /\ id83099 \in DOMAIN outcome.value[P1]
  /\ outcome.value[P1][id83099].code = id83099
  /\ outcome.value[P1][id83099].value = PyFloat(1, 0)

\* C8 as stated: once the transport has answered the realtime request with a
\* non-success HTTP status, the call ends with the transport's error and never
\* with a result or an exception drawn from the body.
C8_StatusErrorSurfaced ==
  (op = "realtime" /\ pc = "done" /\ response # None /\ response.status >= 400) =>
    /\ outcome.kind = "raise"
    /\ outcome.exc = "TransportError"

(* --------------------- value coercion, exhaustively -------------------- *)

RawAlphabet == {"0", "1", ".", "-", "e", " "}

\* raw point values: null, every string over RawAlphabet up to MaxLen
\* characters, the spec's examples, the other spellings float() accepts, and a
\* JSON integer
RawValues ==
  {None, PyInt(120)}
    \cup {PyStr(s) : s \in SeqsUpTo(RawAlphabet, MaxLen)}
    \cup {PyStr(raw123_4), PyStr(rawNA), PyStr(<<"n", "a", "n">>),
          PyStr(<<"-", "I", "n", "f">>), PyStr(<<"+", "1", "_", "0">>),
          PyStr(<<"1", "_", "_", "0">>), PyStr(<<"1", "E", "+", "2">>)}

\* responses with one record of plant P1 whose field p83022 has a raw value
CoerceResponses ==
  {Response(200, [result_data |->
                    [point_dict |-> PointDict,
                     device_point_list |->
                       <<<<<<ps_id_key, PyStr(P1)>>, <<p83022, v>>, <<p83099, w>>>>>>]]) :
     v \in RawValues, w \in {None, PyStr(rawNA)}}

NextCoerce ==
  \/ \E m \in {None, PyList(<<daily_yield>>)} : async_get_realtime_data(PyStr(P1), m)
  \/ \E r \in CoerceResponses : request_returns(r)
  \/ request_raises
  \/ realtime_continue
  \/ finish

SpecCoerce == Init /\ [][NextCoerce]_vars

\* C5: for every point field present in a plant record, the call returns (it does
\* not fail) a result that holds the field's Reading, whose value is None when
\* the raw value is null, the number float() parses when it parses one, and
\* otherwise the raw string itself.
C5_ValueCoercion ==
  (op = "realtime" /\ pc = "done" /\ response # None) =>
    LET plant == response.body.result_data.device_point_list[1]
    IN /\ outcome.kind = "return"
       /\ \A f \in DOMAIN plant :
            plant[f][1] # ps_id_key =>
              LET raw == plant[f][2]
                  point_id == Tail(plant[f][1])
                  inner == outcome.value[P1]
              IN /\ Get(measure_points, point_id, point_id) \in DOMAIN inner
                 /\ inner[Get(measure_points, point_id, point_id)].id = point_id
                 /\ inner[Get(measure_points, point_id, point_id)].value =
                      (IF raw = None THEN None
                       ELSE IF raw.t = "str" /\ ~IsFloatLiteral(raw.v) THEN PyStr(raw.v)
                       ELSE float(raw))

\* C5 witness: "N/A" came back as the string "N/A", next to a parsed number
C5_Witness ==
  /\ op = "realtime" /\ pc = "done" /\ outcome.kind = "return"
  /\ outcome.value[P1][id83099].value = PyStr(rawNA)
  /\ outcome.value[P1][daily_yield].value = PyFloat(-1, 1)

(* ------------------------ the registry, looked up ---------------------- *)

\* the names a lookup is tried on: every id and code of the registry, an
\* unregistered id and an unregistered name
LookupNames ==
  {measure_points_literal[i][1] : i \in DOMAIN measure_points_literal}
    \cup {measure_points_literal[i][2] : i \in DOMAIN measure_points_literal}
    \cup {id83099, bogus_metric}

\* measure_points_map[m], the lookup of line 67
idOf(m) ==
  IF m \in DOMAIN measure_points_map THEN Return(measure_points_map[m])
  ELSE Raise("KeyError", 67, m)

lookup_id(m) ==
  /\ pc = "idle"
  /\ op' = "idOf"
  /\ args' = PyStr(m)
  /\ outcome' = idOf(m)
  /\ pc' = "looked_up"
  /\ UNCHANGED <<payload, requests, response>>

lookup_code(point_id) ==
  /\ pc = "idle"
  /\ op' = "codeOf"
  /\ args' = PyStr(point_id)
  /\ outcome' = Return(codeOf(point_id))
  /\ pc' = "looked_up"
  /\ UNCHANGED <<payload, requests, response>>

\* the other lookup applied to the result of the first
lookup_back ==
  /\ pc = "looked_up"
  /\ outcome.kind = "return"
  /\ outcome' = IF op = "idOf" THEN Return(codeOf(outcome.value)) ELSE idOf(outcome.value)
  /\ pc' = "round_trip"
  /\ UNCHANGED <<op, args, payload, requests, response>>

lookup_finish ==
  /\ pc \in {"looked_up", "round_trip"}
  /\ op' = "none"
  /\ pc' = "idle"
  /\ args' = None
  /\ outcome' = None
  /\ UNCHANGED <<payload, requests, response>>

NextRegistry ==
  \/ \E m \in LookupNames : lookup_id(m)
  \/ \E m \in LookupNames : lookup_code(m)
  \/ lookup_back
  \/ lookup_finish

SpecRegistry == Init /\ [][NextRegistry]_vars

\* C9: the registry is a bijection between numeric ids and semantic codes: every
\* id is all-digit, no code is all-digit, no two entries share an id or a code;
\* every registered code n has codeOf(idOf(n)) = n and every registered id i has
\* idOf(codeOf(i)) = i.
C9_RegistryBijection ==
  LET items == measure_points_items
  IN /\ \A i \in DOMAIN items : isdigit(items[i][1]) /\ ~isdigit(items[i][2])
     /\ \A i, j \in DOMAIN items :
          i # j => items[i][1] # items[j][1] /\ items[i][2] # items[j][2]
     /\ Len(items) = Len(measure_points_literal)
     /\ (pc = "looked_up" /\ op = "idOf") =>
          (outcome.kind = "return" <=> \E i \in DOMAIN items : items[i][2] = args.v)
     /\ (pc = "round_trip" /\ op = "idOf") => outcome = Return(args.v)
     /\ (pc = "round_trip" /\ op = "codeOf"
           /\ \E i \in DOMAIN measure_points_literal : measure_points_literal[i][1] = args.v) =>
          outcome = Return(args.v)

\* C9 witness: daily_yield went to 83022 and back, and 83022 to daily_yield and back
C9_Witness ==
  /\ pc = "round_trip"
  /\ \/ op = "idOf" /\ args = PyStr(daily_yield) /\ outcome = Return(daily_yield)
     \/ op = "codeOf" /\ args = PyStr(id83022) /\ outcome = Return(id83022)

(* ------------------ Control: param_config_verification ----------------- *)

control_uri == "/openapi/platform/paramSettingCheck"

One == PyStr(<<"1">>)

Zero == PyStr(<<"0">>)

\* line 12: the request handed to auth.request
control_request(device_uuid, set_type) ==
  [uri |-> control_uri, params |-> [set_type |-> set_type, uuid |-> str(device_uuid)]]

\* the exception of line 22
could_not_check(call, data) ==
  Raise("PySolarCloudException", 22,
        [device_uuid |-> call.device_uuid, set_type |-> call.set_type, data |-> data])

\* lines 18-21 as "return supported == '1'": any flag but "1" reads as False
supported_result_bool(supported, call, data) == Return(supported = One)

\* lines 18-22: True for "1", False for "0", the exception for anything else
supported_result(supported, call, data) ==
  IF supported = One THEN Return(TRUE)
  ELSE IF supported = Zero THEN Return(FALSE)
  ELSE could_not_check(call, data)

\* lines 16-22 on the decoded body
param_config_result(call, data) ==
  IF Get(data, "result_code", None) # One THEN could_not_check(call, data)
  ELSE IF "result_data" \notin DOMAIN data THEN Raise("KeyError", 16, "result_data")
  ELSE IF data.result_data = None THEN Raise("TypeError", 16, "result_data")
  ELSE IF "check_result" \notin DOMAIN data.result_data
  THEN Raise("KeyError", 16, "check_result")
  ELSE IF data.result_data.check_result # One THEN could_not_check(call, data)
  ELSE IF "dev_result_list" \notin DOMAIN data.result_data
  THEN Raise("KeyError", 17, "dev_result_list")
  ELSE IF Len(data.result_data.dev_result_list) = 0 THEN Raise("IndexError", 17, "0")
  ELSE IF "check_result" \notin DOMAIN data.result_data.dev_result_list[1]
  THEN Raise("KeyError", 17, "check_result")
  ELSE supported_result(data.result_data.dev_result_list[1].check_result, call, data)

\* lines 11-12 up to the await, entered directly or through a wrapper
param_config_call(entry, device_uuid, set_type) ==
  /\ pc = "idle"
  /\ op' = "verify"
  /\ args' = [entry |-> entry, device_uuid |-> device_uuid, set_type |-> set_type]
  /\ payload' = control_request(device_uuid, set_type)
  /\ requests' = requests + 1
  /\ pc' = "await_request"
  /\ UNCHANGED <<response, outcome>>

async_param_config_verification(device_uuid, set_type) ==
  param_config_call("async_param_config_verification", device_uuid, set_type)

async_check_read_support(device_uuid) ==
  param_config_call("async_check_read_support", device_uuid, 2)

async_check_update_support(device_uuid) ==
  param_config_call("async_check_update_support", device_uuid, 0)

\* lines 13-22: the status check, the decoding, the verdict
param_config_continue ==
  /\ op = "verify"
  /\ pc = "await_json"
  /\ outcome' = IF raise_for_status_raises(response) THEN Raise("TransportError", 13, "status")
                ELSE IF json_raises(response) THEN Raise("TransportError", 14, "json")
                ELSE param_config_result(args, response.body)
  /\ pc' = "done"
  /\ UNCHANGED <<op, args, payload, requests, response>>

\* the flags a vendor field may carry: the two recognised strings, another
\* string, the JSON integer 1 and null
Flags == {One, Zero, PyStr(<<"2">>), PyInt(1), None}

DevResults == {[check_result |-> f] : f \in Flags} \cup {[uuid |-> PyInt(7)]}

ResultData ==
  {[check_result |-> c, dev_result_list |-> l] :
     c \in {One, Zero}, l \in SeqsUpTo(DevResults, MaxDevices)}
    \cup {[check_result |-> c] : c \in {One, Zero}}
    \cup {[dev_result_list |-> <<[check_result |-> One]>>]}
    \cup {None}

ControlBodies ==
  {[result_code |-> One, result_data |-> d] : d \in ResultData}
    \cup {[result_code |-> PyStr(<<"E">>), result_data |-> d] :
            d \in {None, [check_result |-> One, dev_result_list |-> <<[check_result |-> One]>>]}}
    \cup {[result_data |-> [check_result |-> One, dev_result_list |-> <<[check_result |-> One]>>]],
          [result_code |-> One],
          [result_code |-> PyInt(1),
           result_data |-> [check_result |-> One, dev_result_list |-> <<[check_result |-> One]>>]]}

ControlResponses ==
  {Response(200, b) : b \in ControlBodies \cup {Undecodable}}
    \cup {Response(500, b) :
            b \in {Undecodable,
                   [result_code |-> One,
                    result_data |-> [check_result |-> One,
                                     dev_result_list |-> <<[check_result |-> One]>>]]}}

DeviceUuids == {PyStr(<<"D", "1">>), PyInt(7)}

NextControl ==
  \/ \E d \in DeviceUuids, s \in {0, 1, 2} : async_param_config_verification(d, s)
  \/ \E d \in DeviceUuids : async_check_read_support(d)
  \/ \E d \in DeviceUuids : async_check_update_support(d)
  \/ \E r \in ControlResponses : request_returns(r)
  \/ request_raises
  \/ param_config_continue
  \/ finish

SpecControl == Init /\ [][NextControl]_vars

\* C10 as stated: on a decoded body of a successful response the call returns True
\* exactly when result_code, result_data.check_result and the first device's
\* check_result are all the string "1", False exactly when the first two are "1"
\* and the device's is the string "0", and raises PySolarCloudException on every
\* other body.
C10_Original ==
  (op = "verify" /\ pc = "done" /\ response # None
     /\ response.status < 400 /\ response.body # Undecodable) =>
    LET data == response.body
        flag(f) ==
          /\ "result_code" \in DOMAIN data /\ data.result_code = One
          /\ "result_data" \in DOMAIN data /\ data.result_data # None
          /\ "check_result" \in DOMAIN data.result_data /\ data.result_data.check_result = One
          /\ "dev_result_list" \in DOMAIN data.result_data
          /\ Len(data.result_data.dev_result_list) > 0
          /\ "check_result" \in DOMAIN data.result_data.dev_result_list[1]
          /\ data.result_data.dev_result_list[1].check_result = f
    IN IF flag(One) THEN outcome = Return(TRUE)
       ELSE IF flag(Zero) THEN outcome = Return(FALSE)
       ELSE outcome.kind = "raise" /\ outcome.exc = "PySolarCloudException"

\* C10 as amended: the call returns True exactly when the three flags are the
\* string "1", False exactly when the first two are "1" and the first device's is
\* the string "0"; every other outcome is an exception, never a boolean:
\* PySolarCloudException when every field the code reads is there, the lookup
\* error (KeyError, TypeError, IndexError) of the first field that is missing
\* when result_code is "1" and one is, and the transport's error when the status
\* is not a success or the body does not decode.  The wrappers pass set_type 2
\* (read) and 0 (update).
C10_TriState ==
  (op = "verify" /\ pc = "done") =>
    /\ args.entry = "async_check_read_support" => payload.params.set_type = 2
    /\ args.entry = "async_check_update_support" => payload.params.set_type = 0
    /\ requests = 1
    /\ (response = None \/ response.status >= 400 \/ response.body = Undecodable) =>
         outcome.kind = "raise" /\ outcome.exc = "TransportError"
    /\ (response # None /\ response.status < 400 /\ response.body # Undecodable) =>
         LET data == response.body
             code1 == "result_code" \in DOMAIN data /\ data.result_code = One
             hasdata == "result_data" \in DOMAIN data /\ data.result_data # None
                          /\ "check_result" \in DOMAIN data.result_data
             check1 == hasdata /\ data.result_data.check_result = One
             hasdev == /\ "dev_result_list" \in DOMAIN data.result_data
                       /\ Len(data.result_data.dev_result_list) > 0
                       /\ "check_result" \in DOMAIN data.result_data.dev_result_list[1]
             readable == ~code1 \/ (hasdata /\ (~check1 \/ hasdev))
             flag(f) == code1 /\ check1 /\ hasdev
                          /\ data.result_data.dev_result_list[1].check_result = f
         IN /\ outcome = Return(TRUE) <=> flag(One)
            /\ outcome = Return(FALSE) <=> flag(Zero)
            /\ (~flag(One) /\ ~flag(Zero)) =>
                 /\ outcome.kind = "raise"
                 /\ readable => outcome.exc = "PySolarCloudException"
                 /\ ~readable => outcome.exc \in {"KeyError", "TypeError", "IndexError"}

\* C10 witness: with both outer flags "1" and the first device's flag "2", the read
\* check raised PySolarCloudException
C10_Witness ==
  /\ op = "verify" /\ pc = "done" /\ args.entry = "async_check_read_support"
  /\ response # None /\ response.status = 200 /\ response.body # Undecodable
  /\ "result_data" \in DOMAIN response.body /\ response.body.result_data # None
  /\ "dev_result_list" \in DOMAIN response.body.result_data
  /\ Len(response.body.result_data.dev_result_list) > 0
  /\ response.body.result_data.dev_result_list[1] = [check_result |-> PyStr(<<"2">>)]
  /\ outcome.kind = "raise" /\ outcome.exc = "PySolarCloudException"

====
